---- MODULE Spec2Model ----
(***************************************************************************)
(* A model of TransformContext (src/src/components/transform-context.tsx), *)
(* the gesture-to-transform state machine of react-zoom-pan-pinch.         *)
(*                                                                         *)
(* The component instance is a record with the class's fields; each event  *)
(* handler is an operator from (instance, event) to the instance it leaves *)
(* behind, written statement by statement after the handler's code.  The   *)
(* helpers imported from ../core and ../utils are not part of the source   *)
(* file; they are modelled after the design document (spec.md) and marked  *)
(* as such where they are defined.                                         *)
(*                                                                         *)
(* Geometry is one-dimensional (positionX only; the Y axis is treated the  *)
(* same way by every handler) and scale and lengths are small integers.    *)
(***************************************************************************)
EXTENDS Integers, Sequences, FiniteSets, TLC

\* ------------------------------------------------------------------ bounds

\* pointer coordinates (clientX) range over -MaxCoord .. MaxCoord
MaxCoord == 1
\* two-touch distances range over 1 .. MaxDist
MaxDist == 2
\* the largest touch count of a touch event
MaxTouches == 3

\* ------------------------------------------------------------- null values

\* a nullable field holds Null or Some(v)
Null == <<>>
Some(v) == <<v>>
Val(o) == o[1]

Min(a, b) == IF a < b THEN a ELSE b
Max(a, b) == IF a > b THEN a ELSE b
Clamp(v, lo, hi) == Max(lo, Min(hi, v))
Sign(v) == IF v > 0 THEN 1 ELSE IF v < 0 THEN -1 ELSE 0

\* --------------------------------------------------------- configuration

Keys == {"Control", "Shift"}

\* the host's props with every option given
DefaultProps ==
  [ disabled       |-> FALSE,
    minScale       |-> 2,
    maxScale       |-> 3,
    initialScale   |-> 2,
    initialPositionX |-> 0,
    limitToBounds  |-> TRUE,
    limitToWrapper |-> FALSE,
    centerOnInit   |-> FALSE,
    wheel          |-> [ step |-> 1, wheelDisabled |-> FALSE, activationKeys |-> <<>> ],
    panning        |-> [ velocityDisabled |-> FALSE ],
    pinch          |-> [ disabled |-> FALSE ],
    doubleClick    |-> [ disabled |-> FALSE, step |-> 1 ] ]

\* the configurations the host switches between, by what they vary
GestureConfigs ==
  { DefaultProps,
    [DefaultProps EXCEPT !.disabled = TRUE],
    [DefaultProps EXCEPT !.pinch.disabled = TRUE] }

KeyConfigs ==
  { DefaultProps,
    [DefaultProps EXCEPT !.wheel.activationKeys = <<"Control">>],
    [DefaultProps EXCEPT !.wheel.wheelDisabled = TRUE] }

PressedConfigs ==
  { DefaultProps,
    [DefaultProps EXCEPT !.wheel.activationKeys = <<"Control", "Shift">>],
    [DefaultProps EXCEPT !.disabled = TRUE] }

TouchConfigs ==
  { DefaultProps,
    [DefaultProps EXCEPT !.disabled = TRUE] }

BoundsConfigs ==
  { DefaultProps,
    [DefaultProps EXCEPT !.limitToWrapper = TRUE] }

\* the measured sizes of wrapper and content (unscaled)
Measured == [ wrapper |-> 5, content |-> 2 ]

\* how far a pinch may leave [minScale, maxScale] before release
ScalePadding == 1

\* ------------------------------------------------------------------ state

VARIABLES
  props,                \* this.props
  mounted,              \* line 64
  transformState,       \* line 66: [scale, positionX]
  setup,                \* line 68
  wrapperComponent,     \* line 71: "null" or "div"
  contentComponent,     \* line 72: "null" or "div"
  isInitialized,        \* line 74
  bounds,               \* line 75: Null or Some([minPositionX, maxPositionX])
  previousWheelEvent,   \* line 77: "null" or "event"
  wheelStopEventTimer,  \* line 78: "null" or "pending"
  wheelAnimationTimer,  \* line 79: "null" or "pending"
  isPanning,            \* line 81
  startCoords,          \* line 82: Null or Some(x)
  pinchStartDistance,   \* line 86
  pinchStartScale,      \* line 87
  velocity,             \* line 89: Null or Some(v)
  animate,              \* line 93
  animation,            \* line 94: Null or Some(target transform state)
  pressedKeys,          \* line 97: key -> "undefined" | "true" | "false"
  style,                \* contentComponent.style.transform, as last written
  windowListeners,      \* the window listeners of componentDidMount are registered
  wrapperListeners,     \* the wrapper listeners of setComponents are registered
  unmounted,            \* componentWillUnmount has run
  ev,                   \* the event delivered last
  cbs,                  \* the callbacks the last event invoked, in order
  panOpen,              \* an onPanningStart is not yet closed by onPanningStop
  pinchOpen,            \* an onPinchingStart is not yet closed by onPinchingStop
  prevAnimate,          \* animate as it was when the last event arrived
  timeouts,             \* the wheel-stop timeouts the host's timer queue holds
  lastKeyEvent,         \* key -> the type of the last key event delivered for it
  sinceTouchEnd         \* what has started a session since the last touchend

\* the fields of the instance
fields ==
  << props, mounted, transformState, setup, wrapperComponent, contentComponent,
     isInitialized, bounds, previousWheelEvent, wheelStopEventTimer,
     wheelAnimationTimer, isPanning, startCoords,
     pinchStartDistance, pinchStartScale, velocity, animate, animation,
     pressedKeys, style >>

vars ==
  << props, mounted, transformState, setup, wrapperComponent, contentComponent,
     isInitialized, bounds, previousWheelEvent, wheelStopEventTimer,
     wheelAnimationTimer, isPanning, startCoords,
     pinchStartDistance, pinchStartScale, velocity, animate, animation,
     pressedKeys, style, windowListeners, wrapperListeners, unmounted,
     ev, cbs, panOpen, pinchOpen, prevAnimate, timeouts, lastKeyEvent,
     sinceTouchEnd >>

\* the instance (`this`) as the handlers see it when an event arrives:
\* the fields, the host's timer queue and an empty log of the callbacks
\* invoked
This ==
  [ props |-> props, mounted |-> mounted, transformState |-> transformState,
    setup |-> setup, wrapperComponent |-> wrapperComponent,
    contentComponent |-> contentComponent, isInitialized |-> isInitialized,
    bounds |-> bounds, previousWheelEvent |-> previousWheelEvent,
    wheelStopEventTimer |-> wheelStopEventTimer,
    wheelAnimationTimer |-> wheelAnimationTimer, isPanning |-> isPanning,
    startCoords |-> startCoords,
    pinchStartDistance |-> pinchStartDistance,
    pinchStartScale |-> pinchStartScale, velocity |-> velocity,
    animate |-> animate, animation |-> animation, pressedKeys |-> pressedKeys,
    style |-> style, timeouts |-> timeouts, cbs |-> <<>> ]


\* ----------------------------------------------------------------- events

\* an event as the handlers read it: its type, the number of touch points,
\* whether its target passes the pan-start gate's test of the target
\* (inside the wrapper, not excluded), the pointer coordinate, the distance
\* of the two touches, the key and the sign of the wheel delta
Event(type, touches, targetOk, x, d, key, delta) ==
  [ type |-> type, touches |-> touches, targetOk |-> targetOk, x |-> x,
    d |-> d, key |-> key, delta |-> delta ]

\* an event without a payload (timers, lifecycle)
Plain(type) == Event(type, 0, FALSE, 0, 1, "Control", 0)

\* what is remembered of the event delivered last
Seen(e) == [ type |-> e.type, touches |-> e.touches, targetOk |-> e.targetOk ]

Coords == -MaxCoord .. MaxCoord
Distances == 1 .. MaxDist
TouchCounts == 1 .. MaxTouches

\* ------------------------------------------------- helpers of ../utils

createSetup(p) == p

createState(p) == [ scale |-> p.initialScale, positionX |-> p.initialPositionX ]

getTransformStyles(x, scale, unit) == [ unit |-> unit, x |-> x, scale |-> scale ]

\* invokes a host callback with the current snapshot; the log keeps its name
\* and whether an animation was live when it ran
handleCallback(c, name) ==
  [c EXCEPT !.cbs = Append(@, [ name |-> name, animate |-> c.animate ])]

\* ------------------------------------------- helpers of ../core/bounds

\* the allowed range of positionX at a scale under a setup
calculateBounds(s, scale) ==
  LET diff == Measured.wrapper - Measured.content * scale
      half == diff \div 2
  IN  IF s.limitToWrapper
        THEN IF diff >= 0
               THEN [ minPositionX |-> 0, maxPositionX |-> diff ]
               ELSE [ minPositionX |-> half, maxPositionX |-> half ]
        ELSE IF diff <= 0
               THEN [ minPositionX |-> diff, maxPositionX |-> 0 ]
               ELSE [ minPositionX |-> half, maxPositionX |-> half ]

\* stores the bounds for a scale, computed under the instance's setup;
\* nothing to measure before wrapper and content are registered
handleCalculateBounds(c, scale) ==
  IF c.wrapperComponent = "null" \/ c.contentComponent = "null"
    THEN c
    ELSE [c EXCEPT !.bounds = Some(calculateBounds(c.setup, scale))]

\* a position clamped to the stored bounds when limitToBounds is set
boundPosition(c, x) ==
  IF c.setup.limitToBounds /\ c.bounds # Null
    THEN Clamp(x, Val(c.bounds).minPositionX, Val(c.bounds).maxPositionX)
    ELSE x

\* --------------------------------------- helpers of ../core/animations

handleCancelAnimation(c) ==
  [c EXCEPT !.animate = FALSE, !.animation = Null, !.velocity = Null]

\* starts the single animation towards a target transform state
animateTo(c, target) ==
  [c EXCEPT !.animate = TRUE, !.animation = Some(target)]

\* ------------------------------------------------------- gesture gates
\* The handlers test setup.disabled and the activation keys themselves; a
\* gate is the rest of the condition.  No gate holds before attachment.

pinching(c) == c.pinchStartDistance # Null

\* ../core/zoom/wheel.utils
isWheelAllowed(c, e) ==
  c.isInitialized /\ ~c.setup.wheel.wheelDisabled

\* ../core/pan/panning.utils: the target is acceptable, no pinch is going on
isPanningStartAllowed(c, e) ==
  c.isInitialized /\ e.targetOk /\ ~pinching(c)

\* ../core/pan/panning.utils: a pan session is active
isPanningAllowed(c) ==
  c.isInitialized /\ c.isPanning

\* ../core/pinch/pinch.utils: pinch enabled, exactly two touch points
isPinchStartAllowed(c, e) ==
  c.isInitialized /\ ~c.setup.pinch.disabled /\ e.touches = 2

\* ../core/pinch/pinch.utils: a pinch session is active
isPinchAllowed(c) ==
  c.isInitialized /\ pinching(c)

\* ../core/handlers/handlers.utils: double click enabled, not mid-pinch
isDoubleClickAllowed(c) ==
  c.isInitialized /\ ~c.setup.doubleClick.disabled /\ ~pinching(c)

\* --------------------------------------------------- applyTransformation

\* lines 384-398: writes the transform of the content element
applyTransformation(c) ==
  IF ~c.mounted \/ c.contentComponent = "null"
    THEN c
    ELSE [c EXCEPT !.style = getTransformStyles(c.transformState.positionX,
                                                c.transformState.scale, "px")]

\* commits a transform state through applyTransformation
commit(c, scale, x) ==
  applyTransformation([c EXCEPT !.transformState = [ scale |-> scale, positionX |-> x ]])

\* zoom-to-point: the position that keeps the point under `at` stationary
zoomToPoint(at, x, oldScale, newScale) ==
  at - ((at - x) * newScale) \div oldScale

\* ----------------------------------------- ../core/zoom/wheel.logic

\* the first wheel event of a burst starts the wheel gesture
handleWheelStart(c) ==
  IF c.previousWheelEvent # "null"
    THEN c
    ELSE handleCallback(handleCallback(handleCancelAnimation(c), "onWheelStart"),
                        "onZoomStart")

\* one wheel tick: a clamped scale step anchored at the cursor, committed
\* synchronously, with the bounds of the new scale
handleWheelZoom(c, e) ==
  LET old == c.transformState
      newScale == Clamp(old.scale - e.delta * c.setup.wheel.step,
                        c.setup.minScale, c.setup.maxScale)
      c1 == handleCalculateBounds(c, newScale)
      x == boundPosition(c1, zoomToPoint(e.x, old.positionX, old.scale, newScale))
      c2 == commit(c1, newScale, x)
      c3 == [c2 EXCEPT !.previousWheelEvent = "event"]
  IN  handleCallback(handleCallback(c3, "onWheel"), "onZoom")

\* clearTimeout: a pending timeout leaves the host's timer queue
cancelTimeout(c) ==
  IF c.wheelStopEventTimer = "pending"
    THEN [c EXCEPT !.wheelStopEventTimer = "null", !.timeouts = @ - 1]
    ELSE c

\* re-arms the debounce timer of the wheel stop: the pending timeout is
\* cancelled and a new one scheduled
handleWheelStop(c, e) ==
  [cancelTimeout(c) EXCEPT !.wheelStopEventTimer = "pending", !.timeouts = @ + 1]

\* the debounce timer fires: the wheel gesture is over
wheelStopTimeout(c) ==
  LET c1 == [c EXCEPT !.wheelStopEventTimer = "null", !.previousWheelEvent = "null",
                      !.timeouts = @ - 1]
  IN  handleCallback(handleCallback(c1, "onWheelStop"), "onZoomStop")

\* ------------------------------------------- ../core/pan/panning.logic

\* records the start coordinates of a pan session
handlePanningStart(c, e) ==
  [c EXCEPT !.isPanning = TRUE,
            !.startCoords = Some(e.x - c.transformState.positionX)]

\* one move of a pan session: the translation is applied directly (clamped
\* to the bounds under limitToBounds) and the velocity is sampled
handlePanning(c, clientX) ==
  IF c.startCoords = Null
    THEN c
    ELSE LET old == c.transformState
             x == boundPosition(c, clientX - Val(c.startCoords))
             c1 == IF c.setup.panning.velocityDisabled
                     THEN c
                     ELSE [c EXCEPT !.velocity = Some(Sign(x - old.positionX))]
         IN  commit(c1, old.scale, x)

\* ends the pan session; a release with velocity starts the inertial animation
handlePanningEnd(c) ==
  LET c1 == [c EXCEPT !.isPanning = FALSE, !.startCoords = Null]
      old == c.transformState
  IN  IF c1.velocity = Null \/ c1.velocity = Some(0)
        THEN c1
        ELSE animateTo(c1, [ scale |-> old.scale,
                             positionX |-> boundPosition(c1, old.positionX
                                                              + Val(c1.velocity)) ])

\* ------------------------------------------ ../core/pinch/pinch.logic

\* records the two-touch distance and the scale; the pinch supersedes a pan
handlePinchStart(c, e) ==
  [c EXCEPT !.pinchStartDistance = Some(e.d),
            !.pinchStartScale = Some(c.transformState.scale),
            !.isPanning = FALSE]

\* one move of a pinch: the scale follows the distance ratio, within the
\* padded scale range, anchored at the midpoint of the touches
handlePinchZoom(c, e) ==
  IF c.pinchStartScale = Null \/ c.pinchStartDistance = Null
    THEN c
    ELSE LET old == c.transformState
             newScale == Clamp((Val(c.pinchStartScale) * e.d) \div Val(c.pinchStartDistance),
                               c.setup.minScale - ScalePadding,
                               c.setup.maxScale + ScalePadding)
             c1 == handleCalculateBounds(c, newScale)
             x == boundPosition(c1, zoomToPoint(e.x, old.positionX, old.scale, newScale))
         IN  commit(c1, newScale, x)

\* ends the pinch session; a scale outside [minScale, maxScale] is animated
\* back to the nearest bound
handlePinchStop(c) ==
  LET c1 == [c EXCEPT !.velocity = Null, !.pinchStartScale = Null,
                      !.pinchStartDistance = Null]
      old == c.transformState
      target == Clamp(old.scale, c.setup.minScale, c.setup.maxScale)
  IN  IF target = old.scale
        THEN c1
        ELSE animateTo(c1, [ scale |-> target, positionX |-> old.positionX ])

\* ------------------------------------- ../core/handlers/handlers.utils

\* an animated step zoom anchored at the click point; at maxScale the
\* double click resets to the initial scale
handleDoubleClick(c, e) ==
  LET old == c.transformState
      stepped == old.scale + c.setup.doubleClick.step
      target == IF stepped > c.setup.maxScale THEN c.setup.initialScale ELSE stepped
      c1 == handleCancelAnimation(c)
      atTarget == handleCalculateBounds(c1, target)
  IN  animateTo(c1, [ scale |-> target,
                      positionX |-> boundPosition(atTarget,
                                      zoomToPoint(e.x, old.positionX, old.scale, target)) ])

\* ------------------------------------------------- the animation loop

Toward(v, target) == v + Sign(target - v)

\* one frame of the running animation: the interpolated state is committed;
\* the last frame commits the target exactly and the animation is over
animationFrame(c) ==
  LET old == c.transformState
      target == Val(c.animation)
      scale == Toward(old.scale, target.scale)
      x == Toward(old.positionX, target.positionX)
      c1 == commit(handleCalculateBounds(c, scale), scale, x)
  IN  IF scale = target.scale /\ x = target.positionX
        THEN [c1 EXCEPT !.animate = FALSE, !.animation = Null, !.velocity = Null]
        ELSE c1

\* ------------------------------------------------------------- key press

\* lines 357-359
setKeyPressed(c, e) == [c EXCEPT !.pressedKeys[e.key] = "true"]

\* setKeyUnPressed resetting the whole map
setKeyUnPressed_All(c, e) ==
  [c EXCEPT !.pressedKeys = [ k \in Keys |-> "undefined" ]]

\* lines 361-363
setKeyUnPressed(c, e) == [c EXCEPT !.pressedKeys[e.key] = "false"]

\* lines 365-370
isPressingKeys(c, keys) ==
  IF Len(keys) = 0
    THEN TRUE
    ELSE \E i \in 1 .. Len(keys) : c.pressedKeys[keys[i]] = "true"

\* ------------------------------------------------------------------ zoom

\* onWheelZoom without its test of the activation keys
onWheelZoom_NoKeys(c, e) ==
  IF c.setup.disabled THEN c
  ELSE IF ~isWheelAllowed(c, e) THEN c
  ELSE handleWheelStop(handleWheelZoom(handleWheelStart(c), e), e)

\* onWheelZoom without the arming of the wheel stop
onWheelZoom_NoStop(c, e) ==
  IF c.setup.disabled THEN c
  ELSE IF ~isWheelAllowed(c, e) THEN c
  ELSE IF ~isPressingKeys(c, c.setup.wheel.activationKeys) THEN c
  ELSE handleWheelZoom(handleWheelStart(c), e)

\* lines 166-179
onWheelZoom(c, e) ==
  IF c.setup.disabled THEN c
  ELSE IF ~isWheelAllowed(c, e) THEN c
  ELSE IF ~isPressingKeys(c, c.setup.wheel.activationKeys) THEN c
  ELSE handleWheelStop(handleWheelZoom(handleWheelStart(c), e), e)

\* ------------------------------------------------------------------- pan

\* onPanningStart without the pan-start gate
onPanningStart_NoGate(c, e) ==
  IF c.setup.disabled THEN c
  ELSE IF ~isPressingKeys(c, c.setup.wheel.activationKeys) THEN c
  ELSE LET c1 == handleCancelAnimation(c)
           c2 == handlePanningStart(c1, e)
       IN  handleCallback(c2, "onPanningStart")

\* onPanningStart without the cancellation of the animation
onPanningStart_NoCancel(c, e) ==
  IF c.setup.disabled THEN c
  ELSE IF ~isPanningStartAllowed(c, e) THEN c
  ELSE IF ~isPressingKeys(c, c.setup.wheel.activationKeys) THEN c
  ELSE handleCallback(handlePanningStart(c, e), "onPanningStart")

\* lines 185-202
onPanningStart(c, e) ==
  IF c.setup.disabled THEN c
  ELSE IF ~isPanningStartAllowed(c, e) THEN c
  ELSE IF ~isPressingKeys(c, c.setup.wheel.activationKeys) THEN c
  ELSE LET c1 == handleCancelAnimation(c)
           c2 == handlePanningStart(c1, e)
       IN  handleCallback(c2, "onPanningStart")

\* onPanning without the pan-continue gate
onPanning_NoGate(c, e) ==
  IF c.setup.disabled THEN c
  ELSE IF ~isPressingKeys(c, c.setup.wheel.activationKeys) THEN c
  ELSE handleCallback(handlePanning(c, e.x), "onPanning")

\* lines 204-221
onPanning(c, e) ==
  IF c.setup.disabled THEN c
  ELSE IF ~isPanningAllowed(c) THEN c
  ELSE IF ~isPressingKeys(c, c.setup.wheel.activationKeys) THEN c
  ELSE handleCallback(handlePanning(c, e.x), "onPanning")

\* onPanningStop returning early when the component is disabled
onPanningStop_ChecksDisabled(c) ==
  IF c.setup.disabled THEN c
  ELSE IF c.isPanning
    THEN handleCallback(handlePanningEnd(c), "onPanningStop")
    ELSE c

\* lines 223-230
onPanningStop(c) ==
  IF c.isPanning
    THEN handleCallback(handlePanningEnd(c), "onPanningStop")
    ELSE c

\* ----------------------------------------------------------------- pinch

\* lines 236-251
onPinchStart(c, e) ==
  IF c.setup.disabled THEN c
  ELSE IF ~isPinchStartAllowed(c, e) THEN c
  ELSE LET c1 == handlePinchStart(c, e)
           c2 == handleCancelAnimation(c1)
       IN  handleCallback(handleCallback(c2, "onPinchingStart"), "onZoomStart")

\* onPinch without its test of setup.disabled
onPinch_IgnoresDisabled(c, e) ==
  IF ~isPinchAllowed(c) THEN c
  ELSE handleCallback(handleCallback(handlePinchZoom(c, e), "onPinching"), "onZoom")

\* lines 253-268
onPinch(c, e) ==
  IF c.setup.disabled THEN c
  ELSE IF ~isPinchAllowed(c) THEN c
  ELSE handleCallback(handleCallback(handlePinchZoom(c, e), "onPinching"), "onZoom")

\* lines 270-277
onPinchStop(c) ==
  IF c.pinchStartScale = Null /\ ~c.isPanning
    THEN c
    ELSE handleCallback(handleCallback(handlePinchStop(c), "onPinchingStop"),
                        "onZoomStop")

\* ----------------------------------------------------------------- touch

\* lines 283-310
onTouchPanningStart(c, e) ==
  IF c.setup.disabled THEN c
  ELSE IF ~isPanningStartAllowed(c, e) THEN c
  ELSE LET c1 == handleCancelAnimation(c)
           c2 == IF e.touches = 1
                   THEN handleCallback(
                          handlePanningStart(handleCancelAnimation(c1), e),
                          "onPanningStart")
                   ELSE c1
       IN  IF e.touches = 2 THEN onPinchStart(c2, e) ELSE c2

\* onTouchPanning taking every touch count above one for a pinch
onTouchPanning_PinchAnyCount(c, e) ==
  LET c1 == IF e.touches = 1
              THEN IF c.setup.disabled THEN c
                   ELSE IF ~isPanningAllowed(c) THEN c
                   ELSE handleCallback(handlePanning(c, e.x), "onPanning")
              ELSE c
  IN  IF e.touches >= 2 THEN onPinch(c1, e) ELSE c1

\* lines 312-332
onTouchPanning(c, e) ==
  LET c1 == IF e.touches = 1
              THEN IF c.setup.disabled THEN c
                   ELSE IF ~isPanningAllowed(c) THEN c
                   ELSE handleCallback(handlePanning(c, e.x), "onPanning")
              ELSE c
  IN  IF e.touches = 2 THEN onPinch(c1, e) ELSE c1

\* onTouchPanningStop without the pan stop
onTouchPanningStop_PinchOnly(c) == onPinchStop(c)

\* lines 334-337
onTouchPanningStop(c) == onPanningStop(onPinchStop(c))

\* ---------------------------------------------------------- double click

\* lines 343-351
onDoubleClick(c, e) ==
  IF c.setup.disabled THEN c
  ELSE IF ~isDoubleClickAllowed(c) THEN c
  ELSE handleDoubleClick(c, e)

\* ------------------------------------------------------------- lifecycle

\* lines 141-160
handleInitializeContentEvents(c) ==
  LET shouldFitComponent == c.setup.limitToBounds /\ ~c.setup.limitToWrapper
      shouldCenterComponent == c.setup.centerOnInit /\ c.transformState.positionX = 0
      c1 == IF shouldFitComponent \/ shouldCenterComponent
              THEN [c EXCEPT !.style = getTransformStyles(25, c.transformState.scale, "%")]
              ELSE c
  IN  applyTransformation(c1)

\* lines 372-382
setComponents(c) ==
  LET c1 == [c EXCEPT !.wrapperComponent = "div", !.contentComponent = "div"]
      c2 == handleCalculateBounds(c1, c1.transformState.scale)
      c3 == handleInitializeContentEvents(c2)
  IN  [c3 EXCEPT !.isInitialized = TRUE]

\* lines 123-128, run after the host has handed over new props
componentDidUpdate(c, newProps) ==
  LET c1 == [c EXCEPT !.props = newProps]
      c2 == handleCalculateBounds(c1, c1.transformState.scale)
  IN  [c2 EXCEPT !.setup = createSetup(c2.props)]

\* lines 111-121
componentWillUnmount(c) == handleCancelAnimation(c)

\* ------------------------------------------------------ callback history

RECURSIVE OpenAfter(_, _, _, _)
\* whether a gesture is open after the callbacks of `seq`, given it was before
OpenAfter(open, seq, start, stop) ==
  IF seq = <<>>
    THEN open
    ELSE OpenAfter(IF Head(seq).name = start THEN TRUE
                   ELSE IF Head(seq).name = stop THEN FALSE
                   ELSE open,
                   Tail(seq), start, stop)

\* what has started a session since the last touchend: "open" before the
\* first touchend and once a touchstart has started a pan or a pinch,
\* "nothing" after a touchend, "mouse" once a mousedown has started a pan;
\* "off" where a specification does not record it
SinceTouchEndAfter(since, e, seq) ==
  LET started == \E i \in 1 .. Len(seq) :
                    seq[i].name \in {"onPanningStart", "onPinchingStart"}
  IN  IF since = "off" THEN "off"
      ELSE IF e.type = "touchend" THEN "nothing"
      ELSE IF e.type = "touchstart" /\ started THEN "open"
      ELSE IF e.type = "mousedown" /\ started /\ since = "nothing" THEN "mouse"
      ELSE since

\* ---------------------------------------------------------------- actions

\* event e has been handled and left the instance as c
Deliver(e, c) ==
  /\ props' = c.props
  /\ mounted' = c.mounted
  /\ transformState' = c.transformState
  /\ setup' = c.setup
  /\ wrapperComponent' = c.wrapperComponent
  /\ contentComponent' = c.contentComponent
  /\ isInitialized' = c.isInitialized
  /\ bounds' = c.bounds
  /\ previousWheelEvent' = c.previousWheelEvent
  /\ wheelStopEventTimer' = c.wheelStopEventTimer
  /\ wheelAnimationTimer' = c.wheelAnimationTimer
  /\ isPanning' = c.isPanning
  /\ startCoords' = c.startCoords
  /\ pinchStartDistance' = c.pinchStartDistance
  /\ pinchStartScale' = c.pinchStartScale
  /\ velocity' = c.velocity
  /\ animate' = c.animate
  /\ animation' = c.animation
  /\ pressedKeys' = c.pressedKeys
  /\ style' = c.style
  /\ ev' = Seen(e)
  /\ cbs' = c.cbs
  /\ panOpen' = OpenAfter(panOpen, c.cbs, "onPanningStart", "onPanningStop")
  /\ pinchOpen' = OpenAfter(pinchOpen, c.cbs, "onPinchingStart", "onPinchingStop")
  /\ prevAnimate' = animate
  /\ timeouts' = c.timeouts
  /\ lastKeyEvent' = IF e.type \in {"keydown", "keyup"}
                       THEN [lastKeyEvent EXCEPT ![e.key] = e.type]
                       ELSE lastKeyEvent
  /\ sinceTouchEnd' = SinceTouchEndAfter(sinceTouchEnd, e, c.cbs)

\* neither the listeners nor the mount state change
SameDom == UNCHANGED << windowListeners, wrapperListeners, unmounted >>

\* The window delivers mouse and key events between mount and unmount
\* (lines 102-106, 114-118).  A gesture starts with the pointer at the origin.
MouseDown ==
  /\ windowListeners
  /\ \E ok \in BOOLEAN :
       LET e == Event("mousedown", 0, ok, 0, 1, "Control", 0)
       IN  Deliver(e, onPanningStart(This, e))
  /\ SameDom

MouseMove ==
  /\ windowListeners
  /\ \E x \in Coords :
       LET e == Event("mousemove", 0, FALSE, x, 1, "Control", 0)
       IN  Deliver(e, onPanning(This, e))
  /\ SameDom

MouseUp ==
  /\ windowListeners
  /\ Deliver(Plain("mouseup"), onPanningStop(This))
  /\ SameDom

KeyDownOf(keyboard) ==
  /\ windowListeners
  /\ \E k \in keyboard :
       LET e == Event("keydown", 0, FALSE, 0, 1, k, 0)
       IN  Deliver(e, setKeyPressed(This, e))
  /\ SameDom

KeyUpOf(keyboard) ==
  /\ windowListeners
  /\ \E k \in keyboard :
       LET e == Event("keyup", 0, FALSE, 0, 1, k, 0)
       IN  Deliver(e, setKeyUnPressed(This, e))
  /\ SameDom

KeyDown == KeyDownOf({"Control"})

KeyUp == KeyUpOf({"Control"})

KeyDownAny == KeyDownOf(Keys)

KeyUpAny == KeyUpOf(Keys)

\* The wrapper delivers wheel, double click and touch events once
\* setComponents has registered its listeners (lines 134-138) and while the
\* element is in the document.
Wheel ==
  /\ wrapperListeners /\ ~unmounted
  /\ \E x \in Coords, delta \in {-1, 1} :
       LET e == Event("wheel", 0, TRUE, x, 1, "Control", delta)
       IN  Deliver(e, onWheelZoom(This, e))
  /\ SameDom

DoubleClick ==
  /\ wrapperListeners /\ ~unmounted
  /\ \E x \in Coords :
       LET e == Event("dblclick", 0, TRUE, x, 1, "Control", 0)
       IN  Deliver(e, onDoubleClick(This, e))
  /\ SameDom

\* the distance of the touches is that of a two-touch event, whose midpoint
\* is the origin
TouchStart ==
  /\ wrapperListeners /\ ~unmounted
  /\ \E n \in TouchCounts, ok \in BOOLEAN, d \in Distances :
       /\ n # 2 => d = 1
       /\ LET e == Event("touchstart", n, ok, 0, d, "Control", 0)
          IN  Deliver(e, onTouchPanningStart(This, e))
  /\ SameDom

TouchMove ==
  /\ wrapperListeners /\ ~unmounted
  /\ \E n \in TouchCounts, x \in Coords, d \in Distances :
       /\ n # 2 => d = 1
       /\ n # 1 => x = 0
       /\ LET e == Event("touchmove", n, FALSE, x, d, "Control", 0)
          IN  Deliver(e, onTouchPanning(This, e))
  /\ SameDom

TouchEnd ==
  /\ wrapperListeners /\ ~unmounted
  /\ Deliver(Plain("touchend"), onTouchPanningStop(This))
  /\ SameDom

\* a scheduled timeout fires whether or not the component is still mounted
WheelStopTimer ==
  /\ timeouts > 0
  /\ Deliver(Plain("wheelStopTimeout"), wheelStopTimeout(This))
  /\ SameDom

\* the frame loop runs while an animation is live
AnimationFrame ==
  /\ animate /\ animation # Null
  /\ Deliver(Plain("animationFrame"), animationFrame(This))
  /\ SameDom

\* lines 99-109
ComponentDidMount ==
  /\ ~windowListeners /\ ~unmounted
  /\ Deliver(Plain("componentDidMount"), This)
  /\ windowListeners' = TRUE
  /\ UNCHANGED << wrapperListeners, unmounted >>

\* the wrapper and content elements attach themselves after mount
SetComponents ==
  /\ windowListeners /\ ~unmounted /\ wrapperComponent = "null"
  /\ Deliver(Plain("setComponents"), setComponents(This))
  /\ wrapperListeners' = TRUE
  /\ UNCHANGED << windowListeners, unmounted >>

\* the host re-renders with new props out of a set of configurations
ComponentDidUpdateTo(configs) ==
  /\ windowListeners /\ ~unmounted
  /\ \E p \in configs :
       Deliver(Plain("componentDidUpdate"), componentDidUpdate(This, p))
  /\ SameDom

ComponentDidUpdate == ComponentDidUpdateTo(GestureConfigs)

ComponentDidUpdateKeys == ComponentDidUpdateTo(KeyConfigs)

ComponentDidUpdateBounds == ComponentDidUpdateTo(BoundsConfigs)

ComponentDidUpdatePressed == ComponentDidUpdateTo(PressedConfigs)

ComponentDidUpdateTouch == ComponentDidUpdateTo(TouchConfigs)

ComponentWillUnmount ==
  /\ windowListeners /\ ~unmounted
  /\ Deliver(Plain("componentWillUnmount"), componentWillUnmount(This))
  /\ windowListeners' = FALSE
  /\ unmounted' = TRUE
  /\ UNCHANGED wrapperListeners

\* the instance as constructed (lines 64-97) with props out of a set of
\* configurations, and whether the starts since a touchend are recorded
InitWith(configs, recorded) ==
  /\ props \in configs
  /\ mounted = TRUE
  /\ transformState = createState(props)
  /\ setup = createSetup(props)
  /\ wrapperComponent = "null"
  /\ contentComponent = "null"
  /\ isInitialized = FALSE
  /\ bounds = Null
  /\ previousWheelEvent = "null"
  /\ wheelStopEventTimer = "null"
  /\ wheelAnimationTimer = "null"
  /\ isPanning = FALSE
  /\ startCoords = Null
  /\ pinchStartDistance = Null
  /\ pinchStartScale = Null
  /\ velocity = Null
  /\ animate = FALSE
  /\ animation = Null
  /\ pressedKeys = [ k \in Keys |-> "undefined" ]
  /\ style = getTransformStyles(0, 1, "none")
  /\ windowListeners = FALSE
  /\ wrapperListeners = FALSE
  /\ unmounted = FALSE
  /\ ev = Seen(Plain("constructor"))
  /\ cbs = <<>>
  /\ panOpen = FALSE
  /\ pinchOpen = FALSE
  /\ prevAnimate = FALSE
  /\ timeouts = 0
  /\ lastKeyEvent = [ k \in Keys |-> "none" ]
  /\ sinceTouchEnd = IF recorded THEN "open" ELSE "off"

\* ---------------------------------------------------------- specifications

\* The gestures: every pointer, wheel and touch event, the timers and the
\* lifecycle, under the configurations that enable and disable gestures.
Init == InitWith(GestureConfigs, FALSE)

Next ==
  \/ MouseDown
  \/ MouseMove
  \/ MouseUp
  \/ Wheel
  \/ DoubleClick
  \/ TouchStart
  \/ TouchMove
  \/ TouchEnd
  \/ WheelStopTimer
  \/ AnimationFrame
  \/ ComponentDidMount
  \/ SetComponents
  \/ ComponentDidUpdate
  \/ ComponentWillUnmount

Spec == Init /\ [][Next]_vars

\* The activation keys: key, mouse and wheel events under the
\* configurations of the wheel.
InitKeys == InitWith(KeyConfigs, FALSE)

NextKeys ==
  \/ KeyDown
  \/ KeyUp
  \/ MouseDown
  \/ MouseMove
  \/ MouseUp
  \/ Wheel
  \/ WheelStopTimer
  \/ AnimationFrame
  \/ ComponentDidMount
  \/ SetComponents
  \/ ComponentDidUpdateKeys
  \/ ComponentWillUnmount

SpecKeys == InitKeys /\ [][NextKeys]_vars

\* The wheel with its timer: as SpecKeys, and a timeout the host's timer
\* queue holds fires in the end.
SpecWheel == InitKeys /\ [][NextKeys]_vars /\ WF_vars(WheelStopTimer)

\* The bounds: scale and position changes under the configurations of the
\* bounds.
InitBounds == InitWith(BoundsConfigs, FALSE)

NextBounds ==
  \/ MouseDown
  \/ MouseMove
  \/ MouseUp
  \/ Wheel
  \/ DoubleClick
  \/ WheelStopTimer
  \/ AnimationFrame
  \/ ComponentDidMount
  \/ SetComponents
  \/ ComponentDidUpdateBounds
  \/ ComponentWillUnmount

SpecBounds == InitBounds /\ [][NextBounds]_vars

\* The pressed keys: the events of every key, with the mouse, wheel and
\* touch events that start and end a session, under configurations that
\* require keys and that disable the component.
InitPressed == InitWith(PressedConfigs, FALSE)

NextPressed ==
  \/ KeyDownAny
  \/ KeyUpAny
  \/ MouseDown
  \/ MouseMove
  \/ MouseUp
  \/ Wheel
  \/ TouchStart
  \/ TouchEnd
  \/ WheelStopTimer
  \/ AnimationFrame
  \/ ComponentDidMount
  \/ SetComponents
  \/ ComponentDidUpdatePressed
  \/ ComponentWillUnmount

SpecPressed == InitPressed /\ [][NextPressed]_vars

\* The touch gestures: the touch and mouse events that start, continue and
\* end sessions, with a record of what has started a session since the last
\* touchend.
InitTouch == InitWith(TouchConfigs, TRUE)

NextTouch ==
  \/ MouseDown
  \/ MouseMove
  \/ MouseUp
  \/ TouchStart
  \/ TouchMove
  \/ TouchEnd
  \/ AnimationFrame
  \/ ComponentDidMount
  \/ SetComponents
  \/ ComponentDidUpdateTouch
  \/ ComponentWillUnmount

SpecTouch == InitTouch /\ [][NextTouch]_vars

\* ------------------------------------------------------------- properties

\* the names of the callbacks of a log
Names(seq) == { seq[i].name : i \in 1 .. Len(seq) }

\* the events the gesture handlers of C1 receive
GestureInputs ==
  { "wheel", "mousedown", "mousemove", "touchstart", "touchmove", "dblclick" }

\* C1: while setup.disabled is true, a wheel, mousedown, mousemove,
\* touchstart, touchmove or double click event leaves every field of the
\* instance (transform state, pan, pinch, wheel and animation bookkeeping,
\* timers) as it was and invokes no callback.
C1_DisabledIsNoOp ==
  [][ (setup.disabled /\ ev'.type \in GestureInputs)
        => (UNCHANGED fields /\ cbs' = <<>>) ]_vars

\* C1 witness: the component was disabled in the middle of a pinch during a
\* running animation, and a two-touch touchmove has been delivered
C1_Witness ==
  /\ setup.disabled
  /\ isInitialized
  /\ pinchStartScale # Null
  /\ ev.type = "touchmove" /\ ev.touches = 2
  /\ cbs = <<>>

\* C2: the wheel activation keys do not gate panning: with
\* wheel.activationKeys non-empty and none of them pressed, a mousedown that
\* passes the pan-start gate of an enabled component starts a pan session and
\* invokes onPanningStart, and a mousemove during a pan session pans and
\* invokes onPanning.
C2_KeysDoNotGatePanning ==
  [][ ( /\ Len(setup.wheel.activationKeys) > 0
        /\ ~isPressingKeys(This, setup.wheel.activationKeys)
        /\ ~setup.disabled )
      => /\ (ev'.type = "mousedown" /\ isPanningStartAllowed(This, ev'))
              => (isPanning' /\ "onPanningStart" \in Names(cbs'))
         /\ (ev'.type = "mousemove" /\ isPanningAllowed(This))
              => "onPanning" \in Names(cbs') ]_vars

RECURSIVE PanOrderOk(_, _)
\* the pan callbacks of a log come in the order start, moves, stop, given
\* whether a pan was open before
PanOrderOk(open, seq) ==
  IF seq = <<>>
    THEN TRUE
    ELSE LET n == Head(seq).name
         IN  CASE n = "onPanningStart" -> ~open /\ PanOrderOk(TRUE, Tail(seq))
               [] n = "onPanning"      -> open /\ PanOrderOk(open, Tail(seq))
               [] n = "onPanningStop"  -> open /\ PanOrderOk(FALSE, Tail(seq))
               [] OTHER                -> PanOrderOk(open, Tail(seq))

\* C3: the pan callbacks follow start, zero or more moves, stop: onPanning
\* and onPanningStop are invoked only while an onPanningStart is open, no
\* second onPanningStart is invoked before the onPanningStop of the previous
\* one, and an onPanningStart is closed by at most one onPanningStop.
C3_PanLifecycleOrder ==
  [][ PanOrderOk(panOpen, cbs') ]_vars

\* C4: onPinchingStop and onZoomStop are invoked by a touchend only to close
\* a pinch that onPinchingStart opened; a touchend that ends a one-finger pan
\* without a pinch invokes neither.
C4_PinchStopClosesAPinch ==
  [][ ev'.type = "touchend"
        => ( ("onPinchingStop" \in Names(cbs') \/ "onZoomStop" \in Names(cbs'))
               => pinchOpen ) ]_vars

\* a pinch session is active
PinchSession == pinchStartScale # Null \/ pinchStartDistance # Null

\* the gates accept a touchstart as the start of a pinch
PinchStartAccepted(e) ==
  /\ ~setup.disabled
  /\ isPanningStartAllowed(This, e)
  /\ isPinchStartAllowed(This, e)

StartAccepted(e) ==
  \/ /\ e.type = "mousedown"
     /\ ~setup.disabled
     /\ isPanningStartAllowed(This, e)
     /\ isPressingKeys(This, setup.wheel.activationKeys)
  \/ /\ e.type = "touchstart" /\ e.touches = 1
     /\ ~setup.disabled
     /\ isPanningStartAllowed(This, e)
  \/ /\ e.type = "touchstart" /\ e.touches = 2
     /\ PinchStartAccepted(e)

\* the start callbacks of a log
StartCallbacks(seq) ==
  { i \in 1 .. Len(seq) : seq[i].name \in {"onPanningStart", "onPinchingStart"} }

\* C6: when a mousedown, a one-touch touchstart or a two-touch touchstart is
\* accepted by its gate, the start callback (onPanningStart / onPinchingStart)
\* is invoked with no animation live, and no animation is left to commit a
\* frame once the handler has returned.
C6_StartCancelsAnimation ==
  [][ StartAccepted(ev')
        => /\ StartCallbacks(cbs') # {}
           /\ \A i \in StartCallbacks(cbs') : ~cbs'[i].animate
           /\ ~animate' /\ animation' = Null ]_vars

\* C6 witness: a mousedown has started a pan while an animation was running
C6_Witness ==
  /\ prevAnimate
  /\ ev.type = "mousedown"
  /\ "onPanningStart" \in Names(cbs)
  /\ isPanning
  /\ ~animate

\* C7: after componentWillUnmount nothing of the state machine is left
\* scheduled: no wheel-stop timer, no wheel animation timer and no animation
\* frame loop is pending, and no callback is invoked any more.
C7_NothingScheduledAfterUnmount ==
  unmounted =>
    /\ wheelStopEventTimer # "pending"
    /\ wheelAnimationTimer # "pending"
    /\ ~animate
    /\ cbs = <<>>

\* C8: once componentDidUpdate has processed a change of props, the stored
\* bounds are the bounds of the current scale under the new setup.
C8_BoundsFollowNewSetup ==
  (ev.type = "componentDidUpdate" /\ isInitialized)
    => bounds = Some(calculateBounds(setup, transformState.scale))

\* C9: a touchstart with exactly two touch points starts a pinch session and
\* invokes onPinchingStart and onZoomStart if and only if the component is
\* not disabled and the pinch-start gate holds, whatever the pan-start gate
\* says of the event.
C9_PinchStartByPinchGateAlone ==
  [][ (ev'.type = "touchstart" /\ ev'.touches = 2)
        => ( ( /\ PinchSession'
               /\ "onPinchingStart" \in Names(cbs')
               /\ "onZoomStart" \in Names(cbs') )
             <=> (~setup.disabled /\ isPinchStartAllowed(This, ev')) ) ]_vars

\* C10: a touchstart whose touch count is neither 1 nor 2 changes no field
\* of the instance (it neither cancels nor alters a running animation or the
\* velocity) and invokes no callback.
C10_WrongTouchCountIsNoOp ==
  [][ (ev'.type = "touchstart" /\ ev'.touches \notin {1, 2})
        => (UNCHANGED fields /\ cbs' = <<>>) ]_vars

\* the conditions under which onWheelZoom handles a wheel event
WheelAccepted(e) ==
  /\ ~setup.disabled
  /\ isWheelAllowed(This, e)
  /\ isPressingKeys(This, setup.wheel.activationKeys)

\* the callbacks of a handled wheel event: those of the wheel start on the
\* first event of a burst, then those of the wheel zoom
WheelCallbacks(first) ==
  IF first
    THEN << "onWheelStart", "onZoomStart", "onWheel", "onZoom" >>
    ELSE << "onWheel", "onZoom" >>

\* the names of the callbacks of a log, in order
NameSeq(seq) == [ i \in 1 .. Len(seq) |-> seq[i].name ]

\* C11: a wheel event is handled if and only if the component is not
\* disabled, isWheelAllowed holds and wheel.activationKeys is empty or one of
\* its keys is pressed: then the wheel start, the wheel zoom and the arming
\* of the wheel stop run once each, in this order; in every other case the
\* wheel event changes no field, arms no timer and invokes no callback.
C11_WheelHandledIffAllowed ==
  [][ ev'.type = "wheel"
        => IF WheelAccepted(ev')
             THEN /\ NameSeq(cbs') = WheelCallbacks(previousWheelEvent = "null")
                  /\ previousWheelEvent' = "event"
                  /\ wheelStopEventTimer' = "pending"
                  /\ timeouts' = 1
             ELSE /\ UNCHANGED fields
                  /\ UNCHANGED timeouts
                  /\ cbs' = <<>> ]_vars

\* C11 witness: with the activation key of the wheel pressed, a wheel event
\* has been handled
C11_Witness ==
  /\ Len(setup.wheel.activationKeys) > 0
  /\ pressedKeys["Control"] = "true"
  /\ ev.type = "wheel"
  /\ "onWheel" \in Names(cbs)
  /\ wheelStopEventTimer = "pending"

\* a burst of wheel events is open: a wheel event was handled and the wheel
\* stop has not fired since
WheelBurst == previousWheelEvent = "event"

\* the wheel-stop notification has just fired
WheelStopFired == ev.type = "wheelStopTimeout" /\ "onWheelStop" \in Names(cbs)

Settled == ~isPanning /\ ~PinchSession /\ ~animate

\* the scale is within the configured range
ScaleInRange ==
  /\ setup.minScale <= transformState.scale
  /\ transformState.scale <= setup.maxScale

\* C13: whenever the machine is settled (no pan session, no pinch session,
\* no running animation) the scale is within [minScale, maxScale]; a pinch
\* that ends with the scale outside the range starts the animation back to
\* the nearest bound.
C13_ScaleInRangeWhenSettled ==
  /\ [](Settled => ScaleInRange)
  /\ [][ (ev'.type = "touchend" /\ PinchSession /\ ~ScaleInRange)
           => /\ animate' /\ animation' # Null
              /\ Val(animation').scale
                   = Clamp(transformState.scale, setup.minScale, setup.maxScale) ]_vars

\* the wheel events the wrapper can deliver
WheelEvents ==
  { Event("wheel", 0, TRUE, x, 1, "Control", delta) : x \in Coords, delta \in {-1, 1} }

KeyLists ==
  { <<>>, <<"Control">>, <<"Shift">>, <<"Control", "Shift">>, <<"Shift", "Control">> }

\* C15: after any sequence of keydown and keyup events, isPressingKeys(keys)
\* is true if and only if keys is empty or the most recent key event of at
\* least one key of keys is a keydown; a key without any key event counts as
\* not pressed, and the keyup of one key leaves another held key pressed.
C15_PressedKeysFollowKeyEvents ==
  \A keys \in KeyLists :
    isPressingKeys(This, keys)
      <=> ( \/ Len(keys) = 0
            \/ \E i \in 1 .. Len(keys) : lastKeyEvent[keys[i]] = "keydown" )

\* C15 witness: both keys were pressed and Control has just been released
\* while Shift is still held
C15_Witness ==
  /\ ev.type = "keyup"
  /\ lastKeyEvent["Control"] = "keyup"
  /\ lastKeyEvent["Shift"] = "keydown"
  /\ isPressingKeys(This, <<"Control", "Shift">>)
  /\ ~isPressingKeys(This, <<"Control">>)

\* the callbacks of the pan and of the pinch
PanNames == { "onPanningStart", "onPanning", "onPanningStop" }

PinchNames == { "onPinchingStart", "onPinching", "onPinchingStop" }

\* C16: a touchmove goes by its touch count to at most one gesture: with one
\* touch it pans, and only when the component is not disabled and a pan
\* session is active; with two touches it pinches, and only when the
\* component is not disabled and a pinch session is active; in every other
\* case, and with any other touch count, it changes no field and invokes no
\* callback; no touchmove invokes both a pan and a pinch callback.
C16_TouchMoveByTouchCount ==
  [][ ev'.type = "touchmove"
        => /\ ev'.touches = 1
                => IF ~setup.disabled /\ isPanningAllowed(This)
                     THEN /\ NameSeq(cbs') = << "onPanning" >>
                          /\ transformState'.scale = transformState.scale
                          /\ UNCHANGED << pinchStartDistance, pinchStartScale >>
                     ELSE UNCHANGED fields /\ cbs' = <<>>
           /\ ev'.touches = 2
                => IF ~setup.disabled /\ isPinchAllowed(This)
                     THEN /\ NameSeq(cbs') = << "onPinching", "onZoom" >>
                          /\ UNCHANGED << isPanning, startCoords >>
                     ELSE UNCHANGED fields /\ cbs' = <<>>
           /\ ev'.touches \notin {1, 2}
                => (UNCHANGED fields /\ cbs' = <<>>)
           /\ ~( /\ Names(cbs') \cap PanNames # {}
                 /\ Names(cbs') \cap PinchNames # {} ) ]_vars

\* C16 witness: a one-touch touchmove has panned during a pan session
C16_Witness ==
  /\ ev.type = "touchmove" /\ ev.touches = 1
  /\ isPanning
  /\ NameSeq(cbs) = << "onPanning" >>

\* C17: in every reachable state, isInitialized implies that
\* wrapperComponent and contentComponent are registered and that the stored
\* bounds are the bounds of the current scale; setComponents computes the
\* bounds before it writes the first transform and sets isInitialized last,
\* so the step that sets isInitialized leaves the bounds of the scale and a
\* written transform behind.
C17_AttachmentInvariant ==
  /\ [](isInitialized
          => /\ wrapperComponent # "null"
             /\ contentComponent # "null"
             /\ bounds = Some(calculateBounds(setup, transformState.scale)))
  /\ [][ (~isInitialized /\ isInitialized')
           => /\ ev'.type = "setComponents"
              /\ bounds' = Some(calculateBounds(setup, transformState.scale))
              /\ style' = getTransformStyles(transformState.positionX,
                                             transformState.scale, "px") ]_vars

\* in a log, the callbacks of the pinch stop come before that of the pan stop
PinchStopFirst(seq) ==
  \A i, j \in 1 .. Len(seq) :
    ( /\ seq[i].name \in {"onPinchingStop", "onZoomStop"}
      /\ seq[j].name = "onPanningStop" ) => i < j

\* a touchend leaves neither a pan session nor a pinch session, with the
\* pinch stop processed before the pan stop
TouchEndToIdle ==
  [][ ev'.type = "touchend"
        => /\ ~isPanning'
           /\ pinchStartScale' = Null
           /\ PinchStopFirst(cbs') ]_vars

\* C18: a touchend returns the touch gesture machine to idle: it processes
\* the pinch stop first and the pan stop second and leaves neither a pan
\* session nor a pinch session, whatever session was active; the touchmove
\* events after it change no field and invoke no callback until a new
\* touchstart is accepted.
C18_TouchEndReturnsToIdle ==
  /\ TouchEndToIdle
  /\ [][ (ev'.type = "touchmove" /\ sinceTouchEnd \in {"nothing", "mouse"})
           => (UNCHANGED fields /\ cbs' = <<>>) ]_vars

\* C18 as amended: as C18, with the touchmove events after the touchend
\* changing nothing until a new touchstart or a mousedown is accepted.
C18_TouchEndIdleUntilStart ==
  /\ TouchEndToIdle
  /\ [][ (ev'.type = "touchmove" /\ sinceTouchEnd = "nothing")
           => (UNCHANGED fields /\ cbs' = <<>>) ]_vars

\* C18 witness: a touchend has ended a pan session, the pinch stop processed
\* before the pan stop
C18_Witness ==
  /\ ev.type = "touchend"
  /\ NameSeq(cbs) = << "onPinchingStop", "onZoomStop", "onPanningStop" >>
  /\ ~isPanning
  /\ pinchStartScale = Null
  /\ sinceTouchEnd = "nothing"

\* how often a callback is invoked in a log
Invocations(seq, name) == Cardinality({ i \in 1 .. Len(seq) : seq[i].name = name })

\* C19: an active pan session can always be ended: whenever isPanning is
\* true, a mouseup or a touchend ends the session and invokes onPanningStop
\* exactly once, also when the component was disabled or the activation key
\* released after the pan started; a mouseup without a pan session changes
\* no field and invokes no callback.
C19_PanCanAlwaysBeEnded ==
  [][ ev'.type \in {"mouseup", "touchend"}
        => IF isPanning
             THEN /\ ~isPanning'
                  /\ Invocations(cbs', "onPanningStop") = 1
             ELSE ev'.type = "mouseup" => (UNCHANGED fields /\ cbs' = <<>>) ]_vars

\* C19 witness: a mouseup has ended a pan session of a component that was
\* disabled during the session
C19_Witness ==
  /\ setup.disabled
  /\ ev.type = "mouseup"
  /\ Invocations(cbs, "onPanningStop") = 1
  /\ ~isPanning

====
